---- MODULE Spec2Model ----
(***************************************************************************)
(* Model of lab_6_pipeline/pipeline.py: CorpusManager (validation and     *)
(* scan of the dataset directory), ConlluToken / ConlluSentence (cleaning *)
(* and CONLL-U rendering) and MorphologicalAnalysisPipeline (_process and *)
(* run).                                                                   *)
(*                                                                         *)
(* A Python str is a sequence of one-character strings.  A directory is a *)
(* function from the names of its entries to their contents.              *)
(***************************************************************************)
EXTENDS Integers, Sequences, FiniteSets, TLC

VARIABLES
    pathKind,      \* what path_to_data is: "missing", "file" or "dir"
    dir,           \* the directory: entry name -> file content
    pc,            \* position of main(): see PcValues
    verr,          \* exception raised by CorpusManager.__init__ ("none": none)
    scanQueue,     \* raw_files of _scan_dataset still to be loaded
    storage,       \* CorpusManager._storage, a dict in insertion order
    readCalls,     \* names handed to from_raw, in call order
    cursor,        \* index in storage of the article run() handles next
    processCalls,  \* article ids handed to _process, in call order
    written,       \* articles handed to to_cleaned, in call order
    rerr,          \* exception that ended run() ("none": none)
    raisedAt,      \* index of the article at which run() raised (0: none)
    tOp,           \* text functions: the operation applied ("idle": none)
    tIn,           \* text functions: its argument
    tOut           \* text functions: what it returned or raised

pipeVars == <<pathKind, dir, pc, verr, scanQueue, storage, readCalls, cursor,
              processCalls, written, rerr, raisedAt>>
textVars == <<tOp, tIn, tOut>>
vars == <<pathKind, dir, pc, verr, scanQueue, storage, readCalls, cursor,
          processCalls, written, rerr, raisedAt, tOp, tIn, tOut>>

----------------------------------------------------------------------------
(* Bounds *)

\* Raw files are named <id>_raw.txt for id in 1..MaxId (plus the odd names).
MaxId == 4
\* A directory holds at most MaxEntries entries.
MaxEntries == 4
\* get_cleaned is applied to every text of at most MaxTextLen characters.
MaxTextLen == 3
\* A sentence has at most MaxTokens tokens.
MaxTokens == 3

----------------------------------------------------------------------------
(* Characters and strings *)

UpperChars == <<"A","B","C","D","E","F","G","H","I","J","K","L","M",
                "N","O","P","Q","R","S","T","U","V","W","X","Y","Z">>
LowerChars == <<"a","b","c","d","e","f","g","h","i","j","k","l","m",
                "n","o","p","q","r","s","t","u","v","w","x","y","z">>
DigitChars == <<"0","1","2","3","4","5","6","7","8","9">>

Range(f) == {f[i] : i \in DOMAIN f}

\* \w of a str pattern: letters, digits and the underscore.
IsWordChar(c) == c \in Range(UpperChars) \cup Range(LowerChars)
                       \cup Range(DigitChars) \cup {"_"}

\* \s of a str pattern, and what str.strip() and str.split() take as blank.
IsSpaceChar(c) == c \in {" ", "\t", "\n"}

\* str.lower() on one character.
LowerChar(c) ==
    IF \E i \in DOMAIN UpperChars : UpperChars[i] = c
    THEN LowerChars[CHOOSE i \in DOMAIN UpperChars : UpperChars[i] = c]
    ELSE c

\* str.lower()
Lower(s) == [i \in 1..Len(s) |-> LowerChar(s[i])]

\* All sequences over S of length at most n.
SeqsUpTo(S, n) == UNION {[1..k -> S] : k \in 0..n}

\* str.strip(): leading and trailing whitespace removed.
RECURSIVE LStrip(_)
LStrip(s) == IF s # <<>> /\ IsSpaceChar(Head(s)) THEN LStrip(Tail(s)) ELSE s

RECURSIVE RStrip(_)
RStrip(s) ==
    IF s # <<>> /\ IsSpaceChar(s[Len(s)])
    THEN RStrip(SubSeq(s, 1, Len(s) - 1))
    ELSE s

Strip(s) == RStrip(LStrip(s))

----------------------------------------------------------------------------
(* File names and the dataset directory *)

RawSuffix == <<"_","r","a","w",".","t","x","t">>
MetaName  == <<"1","_","m","e","t","a",".","j","s","o","n">>

\* Decimal digits of a natural number.
RECURSIVE DigitStr(_)
DigitStr(n) ==
    IF n < 10 THEN <<DigitChars[n + 1]>>
    ELSE DigitStr(n \div 10) \o <<DigitChars[(n % 10) + 1]>>

RawName(prefix) == prefix \o RawSuffix

\* The entry names a directory of the model may hold: the raw files 1..MaxId,
\* "01_raw.txt" (a second spelling of id 1), "x_raw.txt" (no number) and a
\* file the raw naming convention does not match.
NamePool ==
    {RawName(DigitStr(i)) : i \in 1..MaxId}
    \cup {RawName(<<"0","1">>), RawName(<<"x">>), MetaName}

\* Contents of a file: empty (st_size 0) or not.
FileTexts == {<<>>, <<"H","i",".">>}

\* Path.glob('*_raw.txt'): the name ends with _raw.txt.
MatchesRaw(name) ==
    /\ Len(name) >= Len(RawSuffix)
    /\ SubSeq(name, Len(name) - Len(RawSuffix) + 1, Len(name)) = RawSuffix

GlobRaw(d) == {name \in DOMAIN d : MatchesRaw(name)}

\* file.name[:file.name.index('_')]
PrefixOf(name) ==
    LET idx == CHOOSE i \in 1..Len(name) :
                   /\ name[i] = "_"
                   /\ \A j \in 1..(i - 1) : name[j] # "_"
    IN SubSeq(name, 1, idx - 1)

DigitValue(c) == (CHOOSE i \in DOMAIN DigitChars : DigitChars[i] = c) - 1

RECURSIVE DecimalValue(_)
DecimalValue(s) ==
    IF s = <<>> THEN 0
    ELSE 10 * DecimalValue(SubSeq(s, 1, Len(s) - 1)) + DigitValue(s[Len(s)])

\* int(s) for a string of the name pool: its value, or ValueError.
ParseInt(s) ==
    IF s # <<>> /\ \A i \in 1..Len(s) : s[i] \in Range(DigitChars)
    THEN [ok |-> TRUE, value |-> DecimalValue(s)]
    ELSE [ok |-> FALSE, value |-> 0]

\* The orders in which the file system may enumerate a set of names.
Orders(S) ==
    {o \in [1..Cardinality(S) -> S] :
        \A i, j \in 1..Cardinality(S) : i # j => o[i] # o[j]}

\* sorted() of a list of integers.
RECURSIVE Insert(_, _)
Insert(x, s) ==
    IF s = <<>> THEN <<x>>
    ELSE IF x <= Head(s) THEN <<x>> \o s
    ELSE <<Head(s)>> \o Insert(x, Tail(s))

RECURSIVE Sorted(_)
Sorted(s) == IF s = <<>> THEN <<>> ELSE Insert(Head(s), Sorted(Tail(s)))

\* list(range(1, n + 1))
RangeList(n) == [i \in 1..n |-> i]

----------------------------------------------------------------------------
(* ConlluToken and ConlluSentence *)

\* re.sub(r'[^\w\s]', '', text): every character that is neither a word
\* character nor whitespace is dropped, scanning left to right.
RECURSIVE ReSubNonWord(_)
ReSubNonWord(text) ==
    IF text = <<>> THEN <<>>
    ELSE IF ~(IsWordChar(Head(text)) \/ IsSpaceChar(Head(text)))
         THEN ReSubNonWord(Tail(text))
         ELSE <<Head(text)>> \o ReSubNonWord(Tail(text))

\* get_cleaned without the call of lower().
GetCleanedNoLower(text) == ReSubNonWord(text)

\* ConlluToken.get_cleaned
GetCleaned(text) == ReSubNonWord(Lower(text))

\* The loop of ConlluSentence.get_cleaned_sentence over self._tokens.
RECURSIVE CleanedLoop(_, _)
CleanedLoop(tokens, sentence) ==
    IF tokens = <<>> THEN sentence
    ELSE LET cleaned_token == GetCleaned(Head(tokens))
         IN CleanedLoop(Tail(tokens),
                        IF cleaned_token # <<>>
                        THEN sentence \o cleaned_token \o <<" ">>
                        ELSE sentence)

\* get_cleaned_sentence without the test `if cleaned_token`: an empty cleaned
\* form still adds its separator.
RECURSIVE CleanedLoopNoSkip(_, _)
CleanedLoopNoSkip(tokens, sentence) ==
    IF tokens = <<>> THEN sentence
    ELSE CleanedLoopNoSkip(Tail(tokens),
                           sentence \o GetCleaned(Head(tokens)) \o <<" ">>)

GetCleanedSentenceNoSkip(tokens) == Strip(CleanedLoopNoSkip(tokens, <<>>))

\* ConlluSentence.get_cleaned_sentence; tokens are the tokens' texts.
GetCleanedSentence(tokens) == Strip(CleanedLoop(tokens, <<>>))

\* The value of a function whose body is only its docstring.
None == [kind |-> "None", value |-> <<>>]

Str(s) == [kind |-> "str", value |-> s]

\* ConlluToken.get_conllu_text
TokenGetConlluText(text, include_morphological_tags) == None

\* ConlluSentence.get_conllu_text
GetConlluText(sentence, include_morphological_tags) == None

----------------------------------------------------------------------------
(* MorphologicalAnalysisPipeline._process *)

\* The names pipeline.py binds at module level: its imports, classes and main.
ModuleGlobals ==
    {"Path", "List", "re", "SentenceProtocol", "get_article_id_from_filepath",
     "from_raw", "to_cleaned", "to_conllu", "OpencorporaTagProtocol",
     "TagConverter", "ASSETS_PATH", "FileNotFoundError", "NotADirectoryError",
     "InconsistentDatasetError", "EmptyDirectoryError", "CorpusManager",
     "MorphologicalTokenDTO", "ConlluToken", "ConlluSentence",
     "MystemTagConverter", "OpenCorporaTagConverter",
     "MorphologicalAnalysisPipeline", "AdvancedMorphologicalAnalysisPipeline",
     "main"}

IsTerminal(c) == c \in {".", "!", "?"}

\* The sentence splitter: a sentence ends with terminal punctuation that is
\* followed by whitespace or ends the text; the punctuation stays with its
\* sentence and the whitespace between sentences is dropped.
RECURSIVE SplitFrom(_, _)
SplitFrom(text, cur) ==
    IF text = <<>> THEN (IF cur = <<>> THEN <<>> ELSE <<cur>>)
    ELSE IF cur = <<>> /\ IsSpaceChar(Head(text)) THEN SplitFrom(Tail(text), cur)
    ELSE IF /\ IsTerminal(Head(text))
            /\ (Len(text) = 1 \/ IsSpaceChar(text[2]))
         THEN <<cur \o <<Head(text)>>>> \o SplitFrom(Tail(text), <<>>)
         ELSE SplitFrom(Tail(text), cur \o <<Head(text)>>)

SplitBySentence(text) == SplitFrom(text, <<>>)

\* str.split(): the maximal runs of characters that are not whitespace.
RECURSIVE SplitWsFrom(_, _)
SplitWsFrom(s, cur) ==
    IF s = <<>> THEN (IF cur = <<>> THEN <<>> ELSE <<cur>>)
    ELSE IF IsSpaceChar(Head(s))
         THEN (IF cur = <<>> THEN <<>> ELSE <<cur>>) \o SplitWsFrom(Tail(s), <<>>)
         ELSE SplitWsFrom(Tail(s), cur \o <<Head(s)>>)

SplitWs(s) == SplitWsFrom(s, <<>>)

\* ConlluSentence(position, text, tokens)
ConlluSentence(position, text, tokens) ==
    [position |-> position, text |-> text, tokens |-> tokens]

\* The body of _process once split_by_sentence has returned `sentences`.
BuildSentences(sentences) ==
    [i \in 1..Len(sentences) |->
        ConlluSentence(i - 1, sentences[i],
                       LET words == SplitWs(sentences[i])
                       IN [j \in 1..Len(words) |-> Strip(words[j])])]

\* MorphologicalAnalysisPipeline._process: what the call raises and returns.
\* Looking up a name the module does not bind raises NameError.
Process(text) ==
    IF "split_by_sentence" \notin ModuleGlobals
    THEN [raised |-> "NameError", value |-> <<>>]
    ELSE [raised |-> "none", value |-> BuildSentences(SplitBySentence(text))]

----------------------------------------------------------------------------
(* CorpusManager *)

\* list_of_ids of _validate_dataset for raw_files in the order `order`.
ListOfIds(order) == [i \in 1..Len(order) |-> ParseInt(PrefixOf(order[i])).value]

\* _validate_dataset without the check of the ids against range(1, n + 1).
ValidateDatasetNoIdCheck(kind, d, order) ==
    IF kind = "missing" THEN "FileNotFoundError"
    ELSE IF kind # "dir" THEN "NotADirectoryError"
    ELSE IF DOMAIN d = {} THEN "EmptyDirectoryError"
    ELSE IF \E i \in 1..Len(order) : Len(d[order[i]]) = 0
         THEN "InconsistentDatasetError"
    ELSE IF \E i \in 1..Len(order) : ~ParseInt(PrefixOf(order[i])).ok
         THEN "ValueError"
    ELSE "none"

\* _validate_dataset without the check that the directory has an entry.
ValidateDatasetNoEmptyCheck(kind, d, order) ==
    IF kind = "missing" THEN "FileNotFoundError"
    ELSE IF kind # "dir" THEN "NotADirectoryError"
    ELSE IF \E i \in 1..Len(order) : Len(d[order[i]]) = 0
         THEN "InconsistentDatasetError"
    ELSE IF \E i \in 1..Len(order) : ~ParseInt(PrefixOf(order[i])).ok
         THEN "ValueError"
    ELSE IF Sorted(ListOfIds(order)) # RangeList(Len(order))
         THEN "InconsistentDatasetError"
    ELSE "none"

\* _validate_dataset comparing list_of_ids itself, not sorted(list_of_ids).
ValidateDatasetUnsorted(kind, d, order) ==
    IF kind = "missing" THEN "FileNotFoundError"
    ELSE IF kind # "dir" THEN "NotADirectoryError"
    ELSE IF DOMAIN d = {} THEN "EmptyDirectoryError"
    ELSE IF \E i \in 1..Len(order) : Len(d[order[i]]) = 0
         THEN "InconsistentDatasetError"
    ELSE IF \E i \in 1..Len(order) : ~ParseInt(PrefixOf(order[i])).ok
         THEN "ValueError"
    ELSE IF ListOfIds(order) # RangeList(Len(order))
         THEN "InconsistentDatasetError"
    ELSE "none"

\* _validate_dataset testing the raw files, not iterdir(), for emptiness.
ValidateDatasetEmptyGlob(kind, d, order) ==
    IF kind = "missing" THEN "FileNotFoundError"
    ELSE IF kind # "dir" THEN "NotADirectoryError"
    ELSE IF order = <<>> THEN "EmptyDirectoryError"
    ELSE IF \E i \in 1..Len(order) : Len(d[order[i]]) = 0
         THEN "InconsistentDatasetError"
    ELSE IF \E i \in 1..Len(order) : ~ParseInt(PrefixOf(order[i])).ok
         THEN "ValueError"
    ELSE IF Sorted(ListOfIds(order)) # RangeList(Len(order))
         THEN "InconsistentDatasetError"
    ELSE "none"

\* CorpusManager._validate_dataset: the exception it raises ("none": it
\* returns), glob('*_raw.txt') having listed the raw files in `order`.
ValidateDataset(kind, d, order) ==
    IF kind = "missing" THEN "FileNotFoundError"
    ELSE IF kind # "dir" THEN "NotADirectoryError"
    ELSE IF DOMAIN d = {} THEN "EmptyDirectoryError"
    ELSE IF \E i \in 1..Len(order) : Len(d[order[i]]) = 0
         THEN "InconsistentDatasetError"
    ELSE IF \E i \in 1..Len(order) : ~ParseInt(PrefixOf(order[i])).ok
         THEN "ValueError"
    ELSE IF Sorted(ListOfIds(order)) # RangeList(Len(order))
         THEN "InconsistentDatasetError"
    ELSE "none"

\* get_article_id_from_filepath: the number that leads the file's name.
GetArticleIdFromFilepath(name) == ParseInt(PrefixOf(name)).value

\* from_raw(path): the article of the file, its text read, nothing attached.
FromRaw(name, d) ==
    [id |-> GetArticleIdFromFilepath(name), text |-> d[name],
     sentences |-> <<>>, attached |-> 0]

\* self._storage[key] = value on a dict kept in insertion order.
DictSet(dict, key, value) ==
    IF \E i \in 1..Len(dict) : dict[i].key = key
    THEN [i \in 1..Len(dict) |->
            IF dict[i].key = key THEN [key |-> key, value |-> value] ELSE dict[i]]
    ELSE Append(dict, [key |-> key, value |-> value])

Keys(dict) == {dict[i].key : i \in 1..Len(dict)}

PcValues == {"start", "validated", "scanning", "constructed", "init_failed",
             "done", "run_failed"}

\* __init__, first half: path_to_data and _storage are set, _validate_dataset runs.
Validate ==
    /\ pc = "start"
    /\ \E order \in Orders(GlobRaw(dir)) :
         LET e == ValidateDataset(pathKind, dir, order)
         IN /\ verr' = e
            /\ pc' = IF e = "none" THEN "validated" ELSE "init_failed"
    /\ UNCHANGED <<pathKind, dir, scanQueue, storage, readCalls, cursor,
                   processCalls, written, rerr, raisedAt>>
    /\ UNCHANGED textVars

\* _scan_dataset: raw_files is listed, in any order of the file system.
ScanList ==
    /\ pc = "validated"
    /\ \E order \in Orders(GlobRaw(dir)) : scanQueue' = order
    /\ pc' = "scanning"
    /\ UNCHANGED <<pathKind, dir, verr, storage, readCalls, cursor,
                   processCalls, written, rerr, raisedAt>>
    /\ UNCHANGED textVars

\* _scan_dataset: one turn of the loop over raw_files.
ScanFile ==
    /\ pc = "scanning"
    /\ scanQueue # <<>>
    /\ LET file == Head(scanQueue)
           article_id == GetArticleIdFromFilepath(file)
       IN /\ storage' = DictSet(storage, article_id, FromRaw(file, dir))
          /\ readCalls' = Append(readCalls, file)
    /\ scanQueue' = Tail(scanQueue)
    /\ UNCHANGED <<pathKind, dir, pc, verr, cursor, processCalls, written,
                   rerr, raisedAt>>
    /\ UNCHANGED textVars

\* _scan_dataset and __init__ return; main() builds the pipeline.
ScanDone ==
    /\ pc = "scanning"
    /\ scanQueue = <<>>
    /\ pc' = "constructed"
    /\ cursor' = 1
    /\ UNCHANGED <<pathKind, dir, verr, scanQueue, storage, readCalls,
                   processCalls, written, rerr, raisedAt>>
    /\ UNCHANGED textVars

----------------------------------------------------------------------------
(* MorphologicalAnalysisPipeline.run *)

\* to_cleaned(article): what is persisted, the cleaned sentences in order.
CleanedOf(article) ==
    [id |-> article.id,
     cleaned |-> [i \in 1..Len(article.sentences) |->
                     GetCleanedSentence(article.sentences[i].tokens)]]

\* One turn of the loop of run() on the article at `i`: the exception it
\* raises ("none": none), the storage and the written files after it.
\* write_fails: to_cleaned fails on an I/O error.
RunTurn(dict, wr, i, write_fails) ==
    LET article == dict[i].value
        result  == Process(article.text)
    IN IF result.raised # "none"
       THEN [raised |-> result.raised, storage |-> dict, written |-> wr]
       ELSE LET annotated == [article EXCEPT !.sentences = result.value,
                                             !.attached = @ + 1]
                dict2 == [dict EXCEPT ![i].value = annotated]
            IN IF write_fails
               THEN [raised |-> "OSError", storage |-> dict2, written |-> wr]
               ELSE [raised |-> "none", storage |-> dict2,
                     written |-> Append(wr, CleanedOf(annotated))]

\* run() with the loop body in a try that records the exception and goes on.
RunArticleContinues ==
    /\ pc = "constructed"
    /\ cursor <= Len(storage)
    /\ \E write_fails \in BOOLEAN :
         LET turn == RunTurn(storage, written, cursor, write_fails)
         IN /\ storage' = turn.storage
            /\ written' = turn.written
            /\ processCalls' = Append(processCalls, storage[cursor].value.id)
            /\ IF turn.raised # "none"
               THEN /\ rerr' = turn.raised
                    /\ raisedAt' = cursor
               ELSE /\ rerr' = rerr
                    /\ raisedAt' = raisedAt
            /\ pc' = pc
            /\ cursor' = cursor + 1
    /\ UNCHANGED <<pathKind, dir, verr, scanQueue, readCalls>>
    /\ UNCHANGED textVars

\* run(): the loop body for the next article of get_articles().values().
RunArticle ==
    /\ pc = "constructed"
    /\ cursor <= Len(storage)
    /\ \E write_fails \in BOOLEAN :
         LET turn == RunTurn(storage, written, cursor, write_fails)
         IN /\ storage' = turn.storage
            /\ written' = turn.written
            /\ processCalls' = Append(processCalls, storage[cursor].value.id)
            /\ IF turn.raised # "none"
               THEN /\ pc' = "run_failed"
                    /\ rerr' = turn.raised
                    /\ raisedAt' = cursor
                    /\ cursor' = cursor
               ELSE /\ pc' = pc
                    /\ rerr' = rerr
                    /\ raisedAt' = raisedAt
                    /\ cursor' = cursor + 1
    /\ UNCHANGED <<pathKind, dir, verr, scanQueue, readCalls>>
    /\ UNCHANGED textVars

\* run(): the loop is exhausted and run() returns.
RunDone ==
    /\ pc = "constructed"
    /\ cursor > Len(storage)
    /\ pc' = "done"
    /\ UNCHANGED <<pathKind, dir, verr, scanQueue, storage, readCalls, cursor,
                   processCalls, written, rerr, raisedAt>>
    /\ UNCHANGED textVars

----------------------------------------------------------------------------
(* main(): CorpusManager(ASSETS_PATH), then pipeline.run() *)

\* The directories of the model: at most MaxEntries entries of the name pool.
Directories ==
    UNION {[S -> FileTexts] :
             S \in {T \in SUBSET NamePool : Cardinality(T) <= MaxEntries}}

TextIdle ==
    /\ tOp = "idle"
    /\ tIn = <<>>
    /\ tOut = None

Init ==
    /\ pathKind \in {"missing", "file", "dir"}
    /\ dir \in Directories
    /\ pathKind # "dir" => DOMAIN dir = {}
    /\ pc = "start"
    /\ verr = "none"
    /\ scanQueue = <<>>
    /\ storage = <<>>
    /\ readCalls = <<>>
    /\ cursor = 0
    /\ processCalls = <<>>
    /\ written = <<>>
    /\ rerr = "none"
    /\ raisedAt = 0
    /\ TextIdle

Next ==
    \/ Validate
    \/ ScanList
    \/ ScanFile
    \/ ScanDone
    \/ RunArticle
    \/ RunDone

Spec == Init /\ [][Next]_vars

----------------------------------------------------------------------------
(* The text functions applied to bounded inputs *)

HelloWorld == <<"H","e","l","l","o",","," ","W","o","r","l","d","!">>
Bangs      == <<"!","!","!">>
Wow        == <<"W","o","w","!">>
Really     == <<"R","e","a","l","l","y","?">>
CatsDogs   == <<"C","a","t","s"," ","r","u","n","."," ",
                "D","o","g","s"," ","s","l","e","e","p",".">>
CatsRun    == <<"C","a","t","s"," ","r","u","n",".">>
WowReally  == <<"W","o","w","!"," ","R","e","a","l","l","y","?">>

\* Token texts: an upper-case letter, a lower-case letter, a digit, the
\* underscore, two kinds of whitespace and two punctuation marks.
CleanAlphabet == {"A", "b", "1", "_", " ", "\t", "!", "."}

CleanTexts == SeqsUpTo(CleanAlphabet, MaxTextLen) \cup {HelloWorld, Bangs}

\* Tokens of a sentence: with and without punctuation, punctuation only,
\* empty, whitespace only, and with whitespace at either end.
TokenPool == {Wow, Really, Bangs, <<>>, <<" ">>, <<" ","a">>, <<"B","!"," ">>,
              <<"A","_","1">>}

TokenLists == SeqsUpTo(TokenPool, MaxTokens)

ProcessTexts == {CatsDogs, CatsRun, WowReally, <<>>, <<"H","i",".">>,
                 <<"A"," "," ","b">>}

\* Sentences to render: every position up to MaxTokens, tokens as _process
\* splits them.
SentencePool ==
    {ConlluSentence(p, t, SplitWs(t)) :
        p \in 0..MaxTokens, t \in {CatsRun, WowReally, <<>>}}

InitText ==
    /\ pathKind = "missing"
    /\ dir = <<>>
    /\ pc = "start"
    /\ verr = "none"
    /\ scanQueue = <<>>
    /\ storage = <<>>
    /\ readCalls = <<>>
    /\ cursor = 0
    /\ processCalls = <<>>
    /\ written = <<>>
    /\ rerr = "none"
    /\ raisedAt = 0
    /\ TextIdle

\* ConlluToken(text).get_cleaned()
CallGetCleaned ==
    /\ tOp = "idle"
    /\ \E text \in CleanTexts :
         /\ tIn' = [text |-> text]
         /\ tOut' = Str(GetCleaned(text))
    /\ tOp' = "get_cleaned"
    /\ UNCHANGED pipeVars

\* ConlluSentence(0, text, tokens).get_cleaned_sentence()
CallGetCleanedSentence ==
    /\ tOp = "idle"
    /\ \E tokens \in TokenLists :
         /\ tIn' = [tokens |-> tokens]
         /\ tOut' = Str(GetCleanedSentence(tokens))
    /\ tOp' = "get_cleaned_sentence"
    /\ UNCHANGED pipeVars

\* pipeline._process(text)
CallProcess ==
    /\ tOp = "idle"
    /\ \E text \in ProcessTexts :
         /\ tIn' = [text |-> text]
         /\ tOut' = Process(text)
    /\ tOp' = "process"
    /\ UNCHANGED pipeVars

\* sentence.get_conllu_text(include_morphological_tags)
CallGetConlluText ==
    /\ tOp = "idle"
    /\ \E sentence \in SentencePool, include \in BOOLEAN :
         /\ tIn' = [sentence |-> sentence, include |-> include]
         /\ tOut' = GetConlluText(sentence, include)
    /\ tOp' = "get_conllu_text"
    /\ UNCHANGED pipeVars

\* The caller drops the result.
Return ==
    /\ tOp # "idle"
    /\ tOp' = "idle"
    /\ tIn' = <<>>
    /\ tOut' = None
    /\ UNCHANGED pipeVars

NextText ==
    \/ CallGetCleaned
    \/ CallGetCleanedSentence
    \/ CallProcess
    \/ CallGetConlluText
    \/ Return

SpecText == InitText /\ [][NextText]_vars

----------------------------------------------------------------------------
(* Properties of CorpusManager, checked under Spec *)

RawFiles == GlobRaw(dir)
NumRaw   == Cardinality(RawFiles)
IdOf(name) == ParseInt(PrefixOf(name)).value
AllNumeric == \A name \in RawFiles : ParseInt(PrefixOf(name)).ok
SomeRawEmpty == \E name \in RawFiles : Len(dir[name]) = 0
Constructed == pc \in {"constructed", "done", "run_failed"}
StorageIds == [i \in 1..Len(storage) |-> storage[i].value.id]

\* C1: constructing a CorpusManager is all-or-nothing.  Either __init__
\* returns, and then the storage holds exactly the keys 1..N, N the number of
\* raw files, one article read per raw file, in whatever order the files were
\* listed; or _validate_dataset raises, and then the storage is empty and
\* from_raw has not been called.  Nothing is loaded before validation passed.
C1_ConstructionAllOrNothing ==
    /\ pc \in {"start", "validated", "init_failed"} =>
          storage = <<>> /\ readCalls = <<>>
    /\ pc = "init_failed" <=> verr # "none"
    /\ Constructed =>
          /\ Keys(storage) = 1..NumRaw
          /\ Len(storage) = NumRaw
          /\ Len(readCalls) = NumRaw
          /\ Range(readCalls) = RawFiles
          /\ \A i \in 1..Len(storage) :
                /\ storage[i].key = storage[i].value.id
                /\ \E name \in RawFiles :
                      /\ IdOf(name) = storage[i].key
                      /\ storage[i].value.text = dir[name]

\* Three raw files were listed last file first, and all three are loaded.
C1_Witness ==
    /\ pc = "constructed"
    /\ Len(storage) = 3
    /\ storage[1].key = 3
    /\ storage[3].key = 1

\* C2: once _validate_dataset has run, the first check that fails has decided
\* the exception: a missing path gives FileNotFoundError (the spec's
\* NotFoundError), a path that is no directory NotADirectoryError, a directory
\* without entries EmptyDirectoryError, and a directory with entries one of
\* whose raw files has size zero InconsistentDatasetError, whatever else is
\* wrong with the file names.
C2_ValidationErrorsInOrder ==
    pc # "start" =>
        /\ verr = "FileNotFoundError" <=> pathKind = "missing"
        /\ verr = "NotADirectoryError" <=> pathKind = "file"
        /\ verr = "EmptyDirectoryError" <=> (pathKind = "dir" /\ DOMAIN dir = {})
        /\ (pathKind = "dir" /\ DOMAIN dir # {} /\ SomeRawEmpty) =>
              verr = "InconsistentDatasetError"

\* An empty raw file whose name carries no number: the size check comes first.
C2_Witness ==
    /\ pc = "init_failed"
    /\ verr = "InconsistentDatasetError"
    /\ \E name \in RawFiles :
          Len(dir[name]) = 0 /\ ~ParseInt(PrefixOf(name)).ok

----------------------------------------------------------------------------
(* Properties of run(), checked under Spec *)

\* C4: when run() has ended other than on an I/O error of to_cleaned, every
\* article of the storage was handed to _process once, in the order of the
\* storage, had its sentences attached once and was then written, one
\* article after the other.
C4_EveryArticleProcessedOnce ==
    (pc \in {"done", "run_failed"} /\ rerr # "OSError") =>
        /\ processCalls = StorageIds
        /\ [i \in 1..Len(written) |-> written[i].id] = StorageIds
        /\ \A i \in 1..Len(storage) :
              /\ storage[i].value.attached = 1
              /\ written[i] = CleanedOf(storage[i].value)

\* C5: run() is fail-fast.  Once the turn of article k has raised, run() is
\* over with that exception: _process was called for the articles 1..k once
\* each and for none after k, the articles before k are written as they were
\* and none from k on, and nothing is attached to an article after k.
C5_RunIsFailFast ==
    (raisedAt # 0 \/ rerr # "none" \/ pc = "run_failed") =>
        /\ pc = "run_failed"
        /\ rerr # "none"
        /\ raisedAt \in 1..Len(storage)
        /\ cursor = raisedAt
        /\ processCalls = SubSeq(StorageIds, 1, raisedAt)
        /\ written = [i \in 1..(raisedAt - 1) |-> CleanedOf(storage[i].value)]
        /\ \A i \in (raisedAt + 1)..Len(storage) :
              storage[i].value.attached = 0 /\ storage[i].value.sentences = <<>>

\* run() raised on the first of several articles.
C5_Witness ==
    /\ pc = "run_failed"
    /\ raisedAt = 1
    /\ Len(storage) >= 2
    /\ processCalls = <<storage[1].value.id>>

----------------------------------------------------------------------------
(* Properties of the text functions, checked under SpecText *)

\* The cleaned forms of the tokens that are not empty, in token order.
NonEmptyForms(tokens) ==
    SelectSeq([i \in 1..Len(tokens) |-> GetCleaned(tokens[i])],
              LAMBDA form : form # <<>>)

\* ' '.join(forms)
RECURSIVE JoinSpace(_)
JoinSpace(forms) ==
    IF forms = <<>> THEN <<>>
    ELSE IF Len(forms) = 1 THEN forms[1]
    ELSE forms[1] \o <<" ">> \o JoinSpace(Tail(forms))

NoEdgeSpace(s) == s = <<>> \/ (~IsSpaceChar(s[1]) /\ ~IsSpaceChar(s[Len(s)]))

\* C6, as claimed: for any sequence of tokens get_cleaned_sentence returns
\* the non-empty cleaned forms joined by one space each, and the result has
\* no leading or trailing whitespace.
C6_Original ==
    tOp = "get_cleaned_sentence" =>
        /\ tOut.value = JoinSpace(NonEmptyForms(tIn.tokens))
        /\ NoEdgeSpace(tOut.value)

\* C6, amended: get_cleaned_sentence returns the non-empty cleaned forms of
\* the tokens, in token order, joined by one space each, with the leading and
\* trailing whitespace of that string removed; a token whose cleaned form is
\* empty adds nothing, not even a separator.  When no cleaned form starts or
\* ends with whitespace, the result is the joined string itself.
C6_CleanedSentenceIsStrippedJoin ==
    tOp = "get_cleaned_sentence" =>
        LET forms == NonEmptyForms(tIn.tokens)
        IN /\ tOut.kind = "str"
           /\ tOut.value = Strip(JoinSpace(forms))
           /\ NoEdgeSpace(tOut.value)
           /\ (\A i \in 1..Len(forms) : NoEdgeSpace(forms[i])) =>
                 tOut.value = JoinSpace(forms)

\* The tokens "Wow!", "!!!", "Really?" give "wow really".
C6_Witness ==
    /\ tOp = "get_cleaned_sentence"
    /\ tIn.tokens = <<Wow, Bangs, Really>>
    /\ tOut.value = <<"w","o","w"," ","r","e","a","l","l","y">>

\* C7: get_cleaned returns the characters of the lowercased text that are
\* word characters or whitespace, each at its rank among them, and no other;
\* a text of punctuation only gives the empty string.
C7_CleanedIsLowercasedWordChars ==
    tOp = "get_cleaned" =>
        LET text == tIn.text
            out  == tOut.value
            kept == {i \in 1..Len(text) :
                        \/ IsWordChar(LowerChar(text[i]))
                        \/ IsSpaceChar(LowerChar(text[i]))}
            rank(i) == Cardinality({j \in kept : j <= i})
        IN /\ tOut.kind = "str"
           /\ Len(out) = Cardinality(kept)
           /\ \A i \in kept : out[rank(i)] = LowerChar(text[i])
           /\ \A k \in 1..Len(out) : out[k] \notin Range(UpperChars)
           /\ kept = {} => out = <<>>
           /\ text = Bangs => out = <<>>
           /\ text = HelloWorld =>
                 out = <<"h","e","l","l","o"," ","w","o","r","l","d">>

\* "Hello, World!" gives "hello world".
C7_Witness ==
    /\ tOp = "get_cleaned"
    /\ tIn.text = HelloWorld
    /\ tOut.value = <<"h","e","l","l","o"," ","w","o","r","l","d">>

\* C8: _process returns one sentence per segment of the sentence splitter, in
\* order, at the positions 0, 1, ..., k-1, the tokens of each its
\* whitespace-separated fragments as written in the text; "Cats run. Dogs
\* sleep." gives two sentences of two tokens, cleaned "cats run" and "dogs
\* sleep".
C8_ProcessReturnsSentences ==
    tOp = "process" =>
        LET segments == SplitBySentence(tIn.text)
        IN /\ tOut.raised = "none"
           /\ Len(tOut.value) = Len(segments)
           /\ \A i \in 1..Len(segments) :
                 /\ tOut.value[i].position = i - 1
                 /\ tOut.value[i].text = segments[i]
                 /\ tOut.value[i].tokens = SplitWs(segments[i])
           /\ tIn.text = CatsDogs =>
                 /\ Len(tOut.value) = 2
                 /\ Len(tOut.value[1].tokens) = 2
                 /\ Len(tOut.value[2].tokens) = 2
                 /\ GetCleanedSentence(tOut.value[1].tokens)
                       = <<"c","a","t","s"," ","r","u","n">>
                 /\ GetCleanedSentence(tOut.value[2].tokens)
                       = <<"d","o","g","s"," ","s","l","e","e","p">>

\* str.split('\n')
RECURSIVE SplitLinesFrom(_, _)
SplitLinesFrom(s, cur) ==
    IF s = <<>> THEN <<cur>>
    ELSE IF Head(s) = "\n" THEN <<cur>> \o SplitLinesFrom(Tail(s), <<>>)
    ELSE SplitLinesFrom(Tail(s), cur \o <<Head(s)>>)

StartsWith(s, prefix) ==
    Len(s) >= Len(prefix) /\ SubSeq(s, 1, Len(prefix)) = prefix

EndsWith(s, suffix) ==
    Len(s) >= Len(suffix) /\ SubSeq(s, Len(s) - Len(suffix) + 1, Len(s)) = suffix

\* C9: get_conllu_text returns a block of text: a comment line that carries
\* position + 1, a comment line that carries the text of the sentence, then
\* one line per token, in token order, numbered from 1.
C9_RenderIsConlluBlock ==
    tOp = "get_conllu_text" =>
        /\ tOut.kind = "str"
        /\ LET sentence == tIn.sentence
               lines == SplitLinesFrom(Strip(tOut.value), <<>>)
           IN /\ Len(lines) = 2 + Len(sentence.tokens)
              /\ StartsWith(lines[1], <<"#">>)
              /\ EndsWith(lines[1], DigitStr(sentence.position + 1))
              /\ StartsWith(lines[2], <<"#">>)
              /\ EndsWith(lines[2], sentence.text)
              /\ \A j \in 1..Len(sentence.tokens) :
                    StartsWith(lines[2 + j],
                               DigitStr(j) \o <<"\t">> \o sentence.tokens[j])

====
